---- MODULE Spec2Model ----
(***************************************************************************)
(* A model of hammeraddons/propcombine.py: the merged-model cache          *)
(* (ModelManager), the two prop groupers (group_props_ent,                 *)
(* group_props_auto) and the QC scanner (load_qcs).                        *)
(*                                                                         *)
(* Numbers.  Prop origins and angles are whole Hammer units / degrees.     *)
(* Everything the code rounds with round(v, 7) is held in fixed point,     *)
(* as the integer v * 10^7, so that the 7-decimal rounding of the          *)
(* fingerprint and the 6-significant-digit '{:g}' text of the cache file   *)
(* are both computed digit for digit.                                      *)
(***************************************************************************)
EXTENDS Integers, Sequences, FiniteSets, Bags, TLC

VARIABLES
    \* ---- ModelManager and the files it owns
    run,         \* which compile of the map this is (1, 2, ...)
    pc,          \* position inside combine(): "load", "combine", "finalised"
    mdl_cache,   \* ModelManager._mdl_cache, an insertion-ordered dict
    mdl_names,   \* ModelManager._mdl_names
    cache_file,  \* cache.vdf on disk: whether it exists, and its PropGroup blocks
    files,       \* model files in maps/<map>/propcombine/
    packed,      \* files handed to the PackList
    compiled,    \* bag: fingerprint -> number of compile() calls this run
    looked,      \* bag: fingerprint -> number of combine_group() lookups this run
    loaded,      \* fingerprints in _mdl_cache when load() returned
    persisted,   \* what the last finalise() held in memory for each block it wrote
    arg,         \* props passed to the last combine_group() call
    ret,         \* StaticProp returned by the last combine_group() call
    \* ---- the level and the grouper generator that combine() drives
    level,       \* the static props of the BSP and combine()'s parameters
    prop_groups, \* combine()'s prop_groups: the lists of props, one per grouping key
    final_props, \* combine()'s final_props, which the groupers know as `rejected`
    emitted,     \* the groups the grouper has yielded so far
    gi,          \* index of the dict entry the grouper's outer loop is at
    gpc,         \* position of the grouper: "group", "seed", "region", "done"
    todo,        \* group_props_auto's todo set
    ri,          \* group_props_ent: index of the bbox_groups entry being tried
    group,       \* group_props_ent: the list its variable `group` names
    made,        \* group_props_ent: the found lists it has handled so far
    \* ---- load_qcs
    qc_folder,   \* the .qc files qc_folder.rglob('*.qc') gives, in its order
    qi,          \* index of the file the loop of load_qcs is at
    qc_map,      \* the dict load_qcs is filling
    qpc          \* position of load_qcs: "scan", "returned", "raised"

mgrVars == <<run, pc, mdl_cache, mdl_names, cache_file, files, packed,
             compiled, looked, loaded, persisted, arg, ret>>

entVars == <<ri, group, made>>

qcVars == <<qc_folder, qi, qc_map, qpc>>

grpVars == <<level, prop_groups, final_props, emitted, gi, gpc, todo, entVars,
             qcVars>>

vars == <<mgrVars, grpVars>>

-----------------------------------------------------------------------------
(* Program constants *)

RoundDigits == 7
GDigits == 6
MAX_GROUP == 24
MDL_EXTS == <<".mdl", ".phy", ".dx90.vtx", ".dx80.vtx", ".sw.vtx", ".vvd">>

Scale == 10 ^ RoundDigits

(* Bounds of the model *)

NumNames == 2      \* names random.getrandbits(16) can give
MaxCalls == 2      \* combine_group() calls per run
MaxRuns == 2       \* compiles of the map in a row

Names == 1..NumNames
\* cache.vdf: absent, or holding blocks.  A file can be damaged after it was
\* written: "unreadable" (open() fails with an OSError other than
\* FileNotFoundError), "garbled" (text Property.parse rejects with its
\* KeyValError) or "nokey" (its last block has lost its name key).
Missing == [exists |-> FALSE, blocks |-> <<>>, damage |-> "none"]
CacheFile(blocks) == [exists |-> TRUE, blocks |-> blocks, damage |-> "none"]
NoCall == <<>>

-----------------------------------------------------------------------------
(* Arithmetic *)

Abs(v) == IF v < 0 THEN -v ELSE v

\* a / b for a >= 0, b > 0, rounded to the nearest integer, ties to even
RoundDiv(a, b) ==
    LET f == a \div b
        rem == a % b
    IN IF 2 * rem > b \/ (2 * rem = b /\ f % 2 = 1) THEN f + 1 ELSE f

\* round(num / den, 7) in fixed point, num and den whole numbers, den > 0
Round7Quot(num, den) ==
    LET q == num \div den
        r == num % den
    IN q * Scale + RoundDiv(r * Scale, den)

\* round(v, 7) of a whole number
Round7(v) == v * Scale

NumDigits(a) ==
    IF a >= 10 ^ 9 THEN 10
    ELSE CHOOSE p \in 1..9 : a < 10 ^ p /\ (p = 1 \/ a >= 10 ^ (p - 1))

\* The number that '{:g}'.format(v) denotes: v cut to GDigits significant digits.
FormatG(v) ==
    IF v = 0 THEN 0
    ELSE LET a == Abs(v)
             p == NumDigits(a)
         IN IF p <= GDigits THEN v
            ELSE LET m == 10 ^ (p - GDigits)
                     r == RoundDiv(a, m) * m
                 IN IF v < 0 THEN -r ELSE r

\* Property.vec() / float() of the text written by FormatG
ParseFloat(t) == t

BoolAsInt(b) == IF b THEN "1" ELSE "0"
ParseBool(s) == s = "1"

\* sorted(set)
RECURSIVE Sorted(_)
Sorted(S) ==
    IF S = {} THEN <<>>
    ELSE LET m == CHOOSE x \in S : \A y \in S : x <= y
         IN <<m>> \o Sorted(S \ {m})

-----------------------------------------------------------------------------
(* StaticProp and PropPos *)

StaticProp(origin, angles, model, skin, solidity, visleafs) ==
    [origin |-> origin, angles |-> angles, model |-> model, skin |-> skin,
     solidity |-> solidity, visleafs |-> visleafs,
     flags |-> {}, tint |-> <<255, 255, 255>>, renderfx |-> 255]

PropPos(x, y, z, pit, yaw, rol, model, skin) ==
    [x |-> x, y |-> y, z |-> z, pit |-> pit, yaw |-> yaw, rol |-> rol,
     model |-> model, skin |-> skin]

MergedModelUsed(key, name, has_coll) ==
    [key |-> key, name |-> name, has_coll |-> has_coll, used |-> TRUE]

\* MergedModel.__init__: used starts False
MergedModel(key, name, has_coll) ==
    [key |-> key, name |-> name, has_coll |-> has_coll, used |-> FALSE]

\* sum of one axis of the first k origins: avg_pos += prop.origin
RECURSIVE SumAxisTo(_, _, _)
SumAxisTo(props, a, k) ==
    IF k = 0 THEN 0 ELSE props[k].origin[a] + SumAxisTo(props, a, k - 1)

SumOrigin(props) == [a \in 1..3 |-> SumAxisTo(props, a, Len(props))]

\* avg_pos /= len(props), held to 7 decimals
AvgPos(props) ==
    LET sum == SumOrigin(props)
    IN [a \in 1..3 |-> Round7Quot(sum[a], Len(props))]

\* The yaw subtracted before matching: computed, then overwritten with 0.
AvgYaw(props) == 0

\* Vec.rotate(0, yaw, 0) of a vector held as numerator over a common
\* denominator, for the quarter turns the model uses.
RotateYaw(v, yaw) ==
    CASE yaw % 360 = 0 -> v
      [] yaw % 360 = 90 -> <<-v[2], v[1], v[3]>>
      [] yaw % 360 = 180 -> <<-v[1], -v[2], v[3]>>
      [] yaw % 360 = 270 -> <<v[2], -v[1], v[3]>>

\* round((origin - avg_pos).rotate(0, -avg_yaw, 0), 7), with avg_pos = sum / n
RelOrigin(origin, sum, n, avg_yaw) ==
    LET num == [a \in 1..3 |-> n * origin[a] - sum[a]]
        rot == RotateYaw(num, 0 - avg_yaw)
    IN [a \in 1..3 |-> Round7Quot(rot[a], n)]

VisleafsOfFirst(props) == props[1].visleafs

\* visleafs.update(prop.visleafs) over the group
VisleafUnion(props) == UNION {props[i].visleafs : i \in 1..Len(props)}

\* prop_key: the frozenset of PropPos of the group
Fingerprint(props) ==
    LET sum == SumOrigin(props)
        n == Len(props)
        avg_yaw == AvgYaw(props)
    IN {LET o == RelOrigin(props[i].origin, sum, n, avg_yaw)
        IN PropPos(o[1], o[2], o[3],
                   Round7(props[i].angles[1]), Round7(props[i].angles[2]),
                   Round7(props[i].angles[3]),
                   props[i].model, props[i].skin) : i \in 1..n}

-----------------------------------------------------------------------------
(* Origins as Python floats *)

\* The fingerprint above is for origins that are whole numbers, whose sums
\* and differences a float holds exactly.  Here an origin axis is a float
\* written as the pair [w, e], for the number w * 2^-10 + e * 2^-62 with e
\* far below one unit of w: a coordinate on a fine binary grid, or float
\* noise next to zero.  A float has 53 significant bits, so next to a w of
\* magnitude 2^b (in its units) it is held to 2^b units of e.

FloatZero == [w |-> 0, e |-> 0]

FloorLog2(n) == CHOOSE b \in 0..30 : 2 ^ b <= n /\ n < 2 ^ (b + 1)

\* a to the nearest multiple of m, ties to the even multiple
RoundTo(a, m) == IF a < 0 THEN 0 - RoundDiv(0 - a, m) * m ELSE RoundDiv(a, m) * m

\* The float nearest to the number [w, e] (round half to even)
FloatNearest(v) ==
    IF v.w = 0 THEN v
    ELSE LET aw == Abs(v.w)
             top == FloorLog2(aw)
             b == IF aw = 2 ^ top /\ v.e # 0 /\ ((v.e < 0) = (v.w > 0))
                  THEN top - 1 ELSE top
         IN [w |-> v.w, e |-> RoundTo(v.e, IF b >= 0 THEN 2 ^ b ELSE 1)]

\* float.__add__, float.__sub__: the exact result, rounded once
FloatAdd(a, b) == FloatNearest([w |-> a.w + b.w, e |-> a.e + b.e])
FloatSub(a, b) == FloatNearest([w |-> a.w - b.w, e |-> a.e - b.e])

\* float.__truediv__ by 1, 2 or 4 of a float whose parts divide: exact
FloatDiv(a, n) == [w |-> a.w \div n, e |-> a.e \div n]

\* round(v, 7) in units of 10^-7: the decimal nearest to the exact value
\* of the float; w decides unless it is half way, then e does, then even.
RECURSIVE FloatRound7(_)
FloatRound7(v) ==
    IF v.w < 0 THEN 0 - FloatRound7([w |-> 0 - v.w, e |-> 0 - v.e])
    ELSE LET h == v.w \div 1024
             l == (v.w % 1024) * (Scale \div 128)
             q == l \div 8
             r == l % 8
             up == r > 4 \/ (r = 4 /\ (v.e > 0 \/ (v.e = 0 /\ q % 2 = 1)))
         IN h * Scale + q + (IF up THEN 1 ELSE 0)

\* avg_pos += prop.origin over the first k props, in list order
RECURSIVE FloatSumTo(_, _, _)
FloatSumTo(props, a, k) ==
    IF k = 0 THEN FloatZero
    ELSE FloatAdd(FloatSumTo(props, a, k - 1), props[k].origin[a])

\* avg_pos /= len(props)
FloatAvgPos(props) ==
    [a \in 1..3 |-> FloatDiv(FloatSumTo(props, a, Len(props)), Len(props))]

\* prop_key for float origins; avg_yaw is 0, so rotate() turns nothing
FloatFingerprint(props) ==
    LET avg_pos == FloatAvgPos(props)
    IN {PropPos(FloatRound7(FloatSub(props[i].origin[1], avg_pos[1])),
                FloatRound7(FloatSub(props[i].origin[2], avg_pos[2])),
                FloatRound7(FloatSub(props[i].origin[3], avg_pos[3])),
                Round7(props[i].angles[1]), Round7(props[i].angles[2]),
                Round7(props[i].angles[3]),
                props[i].model, props[i].skin) : i \in 1..Len(props)}

-----------------------------------------------------------------------------
(* The cache dict *)

CacheIndex(cache, key) == {i \in 1..Len(cache) : cache[i].key = key}

CacheHasIfUsed(cache, key) == \E i \in CacheIndex(cache, key) : cache[i].used

\* self._mdl_cache[prop_key] succeeds
CacheHas(cache, key) == CacheIndex(cache, key) # {}

CacheGet(cache, key) == cache[CHOOSE i \in CacheIndex(cache, key) : TRUE]

\* self._mdl_cache[key] = rec
DictSet(cache, rec) ==
    IF CacheHas(cache, rec.key)
    THEN [cache EXCEPT ![CHOOSE i \in CacheIndex(cache, rec.key) : TRUE] = rec]
    ELSE Append(cache, rec)

CacheKeys(cache) == {cache[i].key : i \in 1..Len(cache)}

-----------------------------------------------------------------------------
(* Files of a merged model *)

ModelFile(name, ext) == [name |-> name, ext |-> ext]

\* Path.suffix: the last dotted part of the file name
Suffix(f) ==
    IF f.ext \in {".dx90.vtx", ".dx80.vtx", ".sw.vtx"} THEN ".vtx" ELSE f.ext

\* Path.stem: the file name without its suffix
Stem(f) ==
    CASE f.ext = ".dx90.vtx" -> <<f.name, ".dx90">>
      [] f.ext = ".dx80.vtx" -> <<f.name, ".dx80">>
      [] f.ext = ".sw.vtx" -> <<f.name, ".sw">>
      [] OTHER -> <<f.name>>

\* What studiomdl leaves in the model folder for this QC.
CompileOutput(merged) ==
    {ModelFile(merged.name, MDL_EXTS[i]) : i \in
        {j \in 1..Len(MDL_EXTS) : MDL_EXTS[j] # ".phy" \/ merged.has_coll}}

-----------------------------------------------------------------------------
(* ModelManager.combine_group *)

\* A merged prop that keeps the solidity of the first prop whatever the
\* record says of its collision mesh.
MergedPropSolid(props, merged, avg_pos) ==
    [model |-> merged.name,
     origin |-> avg_pos,
     angles |-> <<0, 270, 0>>,
     scaling |-> 1,
     visleafs |-> Sorted(VisleafUnion(props)),
     solidity |-> props[1].solidity,
     flags |-> props[1].flags,
     lighting_origin |-> avg_pos,
     tint |-> props[1].tint,
     renderfx |-> props[1].renderfx]

\* The StaticProp combine_group returns for the group and its merged model.
MergedPropAt(props, merged, avg_pos) ==
    [model |-> merged.name,
     origin |-> avg_pos,
     angles |-> <<0, 270, 0>>,
     scaling |-> 1,
     visleafs |-> Sorted(VisleafUnion(props)),
     solidity |-> IF ~merged.has_coll THEN 0 ELSE props[1].solidity,
     flags |-> props[1].flags,
     lighting_origin |-> avg_pos,
     tint |-> props[1].tint,
     renderfx |-> props[1].renderfx]

MergedProp(props, merged) == MergedPropAt(props, merged, AvgPos(props))

\* str.casefold(), on the words the model uses
Casefold(v) ==
    CASE v = "Studio" -> "studio"
      [] v = "$ModelName" -> "$modelname"
      [] v = "Metal" -> "metal"
      [] OTHER -> v

\* lookup_model(filename): what the .mdl file of a prop says of itself
lookup_model(filename) ==
    CASE filename = "models/c.mdl" -> [surfaceprop |-> "Metal", contents |-> 1]
      [] filename = "models/d.mdl" -> [surfaceprop |-> "wood", contents |-> 1]
      [] filename = "models/e.mdl" -> [surfaceprop |-> "metal", contents |-> 8]
      [] OTHER -> [surfaceprop |-> "metal", contents |-> 1]

\* The test compile() would make if it compared the names as they are written.
CompileRejectsAsWritten(prop_pos) ==
    \/ Cardinality({lookup_model(prop.model).surfaceprop : prop \in prop_pos}) > 1
    \/ Cardinality({lookup_model(prop.model).contents : prop \in prop_pos}) > 1

\* A test that looks at the surface properties only.
CompileRejectsSurfprops(prop_pos) ==
    Cardinality({Casefold(lookup_model(prop.model).surfaceprop) :
                    prop \in prop_pos}) > 1

\* compile(): len(surfprops) > 1 or len(contents) > 1 raises ValueError
\* before any mesh is read.
CompileRejects(prop_pos) ==
    \/ Cardinality({Casefold(lookup_model(prop.model).surfaceprop) :
                        prop \in prop_pos}) > 1
    \/ Cardinality({lookup_model(prop.model).contents : prop \in prop_pos}) > 1

\* A name loop that takes the first name drawn, used or not.
AnyName(names) == Names

\* while True: mdl_name = 'merge_{:04x}'.format(random.getrandbits(16)): the
\* names the loop can leave with, those not in _mdl_names.
FreeNames(names) == Names \ names

\* One call of combine_group(props).  A miss draws a name that is not in
\* _mdl_names (the while loop does not return until it has one), stores the
\* new MergedModel and compiles it; the first use of a model in a run packs
\* its files and removes a .phy the model should not have.
\* (Values are bound through one-element sets so that each is computed once.)
\* This is the call that returns; CompileRaises is the one that does not.
\* `prop_key` and `avg_pos` are what the first two loops have computed.
CombineKeyed(props, prop_key, avg_pos) ==
    \E key \in {prop_key} :
    \E hit \in {CacheHas(mdl_cache, key)} :
    (hit \/ ~CompileRejects(key)) /\
    \E nm \in (IF hit THEN {CacheGet(mdl_cache, key).name} ELSE FreeNames(mdl_names)) :
    \E built \in {MergedModel(key, nm, props[1].solidity # 0)} :
    \E cache1 \in {IF hit THEN mdl_cache ELSE DictSet(mdl_cache, built)} :
    \E files1 \in {IF hit THEN files ELSE files \cup CompileOutput(built)} :
    \E merged \in {CacheGet(cache1, key)} :
        LET first == ~merged.used
            mine == {ModelFile(merged.name, MDL_EXTS[i]) : i \in 1..Len(MDL_EXTS)}
        IN  /\ mdl_names' = IF hit THEN mdl_names ELSE mdl_names \cup {nm}
            /\ mdl_cache' = DictSet(cache1, [merged EXCEPT !.used = TRUE])
            /\ compiled' = IF hit THEN compiled ELSE compiled (+) SetToBag({key})
            /\ looked' = looked (+) SetToBag({key})
            /\ packed' = IF first THEN packed \cup (mine \cap files1) ELSE packed
            /\ files' = IF first /\ ~merged.has_coll
                        THEN files1 \ {ModelFile(merged.name, ".phy")}
                        ELSE files1
            /\ arg' = props
            /\ ret' = MergedPropAt(props, merged, avg_pos)

\* combine_group(props) for origins that are whole numbers
CombineGroup(props) == CombineKeyed(props, Fingerprint(props), AvgPos(props))

\* combine_group(props) for origins that are floats
CombineFloats(props) ==
    CombineKeyed(props, FloatFingerprint(props), FloatAvgPos(props))

\* combine_group(props) on a miss whose compile() raises: the name is taken
\* and the unused record is in _mdl_cache by then, nothing was written or
\* compiled, and the ValueError leaves combine_group and combine().
CompileRaises(props) ==
    \E key \in {Fingerprint(props)} :
    \E nm \in FreeNames(mdl_names) :
        /\ ~CacheHas(mdl_cache, key)
        /\ CompileRejects(key)
        /\ mdl_names' = mdl_names \cup {nm}
        /\ mdl_cache' = DictSet(mdl_cache, MergedModel(key, nm, props[1].solidity # 0))
        /\ looked' = looked (+) SetToBag({key})
        /\ arg' = props
        /\ ret' = NoCall
        /\ UNCHANGED <<compiled, packed, files>>

-----------------------------------------------------------------------------
(* ModelManager.load and ModelManager.finalise *)

\* The Model blocks of one PropGroup block, read back as a set of PropPos.
KeyOfBlock(block) ==
    {PropPos(ParseFloat(m.origin[1]), ParseFloat(m.origin[2]), ParseFloat(m.origin[3]),
             ParseFloat(m.angles[1]), ParseFloat(m.angles[2]), ParseFloat(m.angles[3]),
             m.filename, m.skin) : m \in block.models}

\* for prop in prop_block: ... self._mdl_cache[frozenset(pos_set)] = MergedModel(...)
RECURSIVE LoadFrom(_, _, _)
LoadFrom(blocks, k, cache) ==
    IF k > Len(blocks) THEN cache
    ELSE LoadFrom(blocks, k + 1,
                  DictSet(cache, MergedModel(KeyOfBlock(blocks[k]), blocks[k].name,
                                             ParseBool(blocks[k].has_coll))))

LoadCache(blocks) == LoadFrom(blocks, 1, <<>>)

\* The names load() has put in _mdl_names for these blocks.
BlockNames(blocks) == {blocks[k].name : k \in 1..Len(blocks)}

\* load() as combine() calls it.  A missing cache.vdf raises
\* FileNotFoundError and any other OSError is logged: both leave the manager
\* empty.  KeyValError (a TokenSyntaxError) and the NoKeyError (a
\* LookupError) of prop['name'] are neither, and leave combine(); the blocks
\* before the one without a name are in the cache by then.
Load ==
    /\ pc = "load"
    /\ IF ~cache_file.exists \/ cache_file.damage = "unreadable"
       THEN /\ pc' = "combine"
            /\ loaded' = {}
            /\ UNCHANGED <<mdl_cache, mdl_names>>
       ELSE IF cache_file.damage = "garbled"
       THEN /\ pc' = "raised"
            /\ UNCHANGED <<mdl_cache, mdl_names, loaded>>
       ELSE IF cache_file.damage = "nokey"
       THEN \E before \in {SubSeq(cache_file.blocks, 1, Len(cache_file.blocks) - 1)} :
            /\ pc' = "raised"
            /\ mdl_cache' = LoadCache(before)
            /\ mdl_names' = mdl_names \cup BlockNames(before)
            /\ loaded' = CacheKeys(mdl_cache')
       ELSE /\ pc' = "combine"
            /\ mdl_cache' = LoadCache(cache_file.blocks)
            /\ mdl_names' = mdl_names \cup BlockNames(cache_file.blocks)
            /\ loaded' = CacheKeys(mdl_cache')
    /\ UNCHANGED <<run, cache_file, files, packed, compiled, looked,
                   persisted, arg, ret>>
    /\ UNCHANGED grpVars

IsUsed(entry) == entry.used

\* '{:g} {:g} {:g}'.format(...) of one PropPos
ModelBlock(pos) ==
    [filename |-> pos.model, skin |-> pos.skin,
     origin |-> <<FormatG(pos.x), FormatG(pos.y), FormatG(pos.z)>>,
     angles |-> <<FormatG(pos.pit), FormatG(pos.yaw), FormatG(pos.rol)>>]

PropGroupBlock(entry) ==
    [name |-> entry.name, has_coll |-> BoolAsInt(entry.has_coll),
     models |-> {ModelBlock(pos) : pos \in entry.key}]

\* cache.vdf, which the AtomicWriter has put in the model folder when the
\* loop over the folder starts.  Its stem is no merge name: 0 stands for it.
CacheVdf == ModelFile(0, ".vdf")

\* A loop over the model folder that does not look at the stem.
CulledBySuffix(fs, used_models) ==
    {f \in fs : Suffix(f) \in {".mdl", ".phy", "vtx", ".vvd"}}

\* The loop over the model folder: a file is unlinked unless its suffix is
\* outside the set tested or its stem is a used model's name.
Culled(fs, used_models) ==
    {f \in fs : /\ Suffix(f) \in {".mdl", ".phy", "vtx", ".vvd"}
                /\ ~(Len(Stem(f)) = 1 /\ Stem(f)[1] \in used_models)}

Finalise ==
    /\ pc = "combine"
    /\ pc' = "finalised"
    /\ LET kept == SelectSeq(mdl_cache, IsUsed)
           used_models == {kept[i].name : i \in 1..Len(kept)}
           culled == Culled(files \cup {CacheVdf}, used_models)
       IN /\ cache_file' = IF CacheVdf \in culled
                           THEN Missing
                           ELSE CacheFile([i \in 1..Len(kept) |-> PropGroupBlock(kept[i])])
          /\ files' = files \ culled
          /\ persisted' = {[key |-> kept[i].key, name |-> kept[i].name,
                            has_coll |-> kept[i].has_coll] : i \in 1..Len(kept)}
    /\ UNCHANGED <<run, mdl_cache, mdl_names, packed, compiled, looked,
                   loaded, arg, ret>>
    /\ UNCHANGED grpVars

\* The next compile of the map: combine() builds a fresh ModelManager.
NewRun ==
    /\ pc = "finalised"
    /\ run < MaxRuns
    /\ run' = run + 1
    /\ pc' = "load"
    /\ mdl_cache' = <<>>
    /\ mdl_names' = {}
    /\ compiled' = EmptyBag
    /\ looked' = EmptyBag
    /\ loaded' = {}
    /\ packed' = {}
    /\ arg' = NoCall
    /\ ret' = NoCall
    /\ UNCHANGED <<cache_file, files, persisted>>
    /\ UNCHANGED grpVars

\* Between two compiles something other than the compiler damages the
\* cache file.
Damage ==
    /\ pc = "finalised"
    /\ run < MaxRuns
    /\ cache_file.exists
    /\ cache_file.damage = "none"
    /\ \E d \in {"unreadable", "garbled", "nokey"} :
          /\ d = "nokey" => Len(cache_file.blocks) > 0
          /\ cache_file' = [cache_file EXCEPT !.damage = d]
    /\ UNCHANGED <<run, pc, mdl_cache, mdl_names, files, packed, compiled,
                   looked, loaded, persisted, arg, ret>>
    /\ UNCHANGED grpVars

-----------------------------------------------------------------------------
(* Groups handed to combine_group in the cache specification *)

Shapes ==
    {<<StaticProp(<<0, 0, 0>>, <<0, 0, 0>>, "models/a.mdl", 0, 6, {1, 2}),
       StaticProp(<<2, 0, 0>>, <<0, 0, 0>>, "models/a.mdl", 0, 6, {2, 3})>>,
     <<StaticProp(<<0, 0, 0>>, <<0, 0, 0>>, "models/a.mdl", 0, 6, {1}),
       StaticProp(<<1, 0, 0>>, <<0, 90, 0>>, "models/a.mdl", 0, 6, {4}),
       StaticProp(<<0, 1, 0>>, <<0, 0, 0>>, "models/b.mdl", 1, 6, {1, 5})>>}

\* The group moved by `shift` after a turn of `yaw` degrees about the
\* vertical axis through the world origin.
Transform(props, shift, yaw) ==
    [i \in 1..Len(props) |->
        [props[i] EXCEPT
            !.origin = [a \in 1..3 |-> RotateYaw(props[i].origin, yaw)[a] + shift[a]],
            !.angles = <<props[i].angles[1], props[i].angles[2] + yaw, props[i].angles[3]>>]]

Reverse(props) == [i \in 1..Len(props) |-> props[Len(props) + 1 - i]]

WithSolidity(props, sol) == [i \in 1..Len(props) |-> [props[i] EXCEPT !.solidity = sol]]

Shift == <<1, 1, 0>>

\* Each shape as placed, listed backwards, non-solid, turned and moved.
Groups ==
    UNION {{sh, Reverse(sh), WithSolidity(sh, 0),
            Transform(sh, <<0, 0, 0>>, 90),
            Transform(sh, Shift, 0)} : sh \in Shapes}

Combine ==
    /\ pc = "combine"
    /\ BagCardinality(looked) < MaxCalls
    /\ \E props \in Groups : CombineGroup(props)
    /\ UNCHANGED <<run, pc, cache_file, loaded, persisted>>
    /\ UNCHANGED grpVars

-----------------------------------------------------------------------------
(* The cache specification: compiles of one map in a row *)

\* A ModelManager just built, before any cache file was ever written.
InitManager ==
    /\ run = 1
    /\ pc = "load"
    /\ mdl_cache = <<>>
    /\ mdl_names = {}
    /\ cache_file = Missing
    /\ files = {}
    /\ packed = {}
    /\ compiled = EmptyBag
    /\ looked = EmptyBag
    /\ loaded = {}
    /\ persisted = {}
    /\ arg = NoCall
    /\ ret = NoCall

NoLevel == [counts |-> <<0, 0, 0, 0>>, second |-> <<0, 0, 0, 0>>, lit |-> {},
            dist |-> 0, min_cluster |-> 0, ents |-> <<>>]

\* `group` names the list of the dict entry itself until a found list is
\* bound to it.
OfDict == [found |-> FALSE, items |-> <<>>]
Found(items) == [found |-> TRUE, items |-> items]

\* group_props_ent is not running.
IdleEnt ==
    /\ ri = 0
    /\ group = OfDict
    /\ made = <<>>

\* load_qcs is not running.
IdleQC ==
    /\ qc_folder = <<>>
    /\ qi = 1
    /\ qc_map = <<>>
    /\ qpc = "returned"

\* No grouper runs in the cache specification.
InitCache ==
    /\ InitManager
    /\ level = NoLevel
    /\ prop_groups = <<>>
    /\ final_props = <<>>
    /\ emitted = <<>>
    /\ gi = 0
    /\ gpc = "done"
    /\ todo = {}
    /\ IdleEnt
    /\ IdleQC

NextCache == Load \/ Combine \/ Finalise \/ NewRun

SpecCache == InitCache /\ [][NextCache]_vars

\* The same compiles, with a cache file that can be damaged between them.
NextDamaged == Load \/ Combine \/ Finalise \/ NewRun \/ Damage

SpecDamaged == InitCache /\ [][NextDamaged]_vars

\* Groups whose models do not agree: c.mdl writes the surface property of
\* a.mdl with a capital, d.mdl is of another material, e.mdl has other
\* contents.
MixedShapes ==
    {<<StaticProp(<<0, 0, 0>>, <<0, 0, 0>>, "models/a.mdl", 0, 6, {1}),
       StaticProp(<<2, 0, 0>>, <<0, 0, 0>>, "models/c.mdl", 0, 6, {2})>>,
     <<StaticProp(<<0, 0, 0>>, <<0, 0, 0>>, "models/a.mdl", 0, 6, {1}),
       StaticProp(<<2, 0, 0>>, <<0, 0, 0>>, "models/d.mdl", 0, 6, {2})>>,
     <<StaticProp(<<0, 0, 0>>, <<0, 0, 0>>, "models/a.mdl", 0, 6, {1}),
       StaticProp(<<2, 0, 0>>, <<0, 0, 0>>, "models/e.mdl", 0, 6, {2})>>}

MixedGroups == Shapes \cup MixedShapes

\* combine_group, called directly with any of these groups, returns
CombineMixed ==
    /\ pc = "combine"
    /\ BagCardinality(looked) < MaxCalls
    /\ \E props \in MixedGroups : CombineGroup(props)
    /\ UNCHANGED <<run, pc, cache_file, loaded, persisted>>
    /\ UNCHANGED grpVars

\* combine_group, called directly with any of these groups, raises
CombineRaise ==
    /\ pc = "combine"
    /\ BagCardinality(looked) < MaxCalls
    /\ \E props \in MixedGroups : CompileRaises(props)
    /\ pc' = "raised"
    /\ UNCHANGED <<run, cache_file, loaded, persisted>>
    /\ UNCHANGED grpVars

NextMixed == Load \/ CombineMixed \/ CombineRaise \/ Finalise \/ NewRun

SpecMixed == InitCache /\ [][NextMixed]_vars

\* Groups of props whose origins are floats: [w, e] along x, zero along y
\* and z.  The first has props at 8.078125, -0.75, 2^-50 and 0.0; the second
\* at 1.5, -0.25, 0.5 and 8.0.
FloatAt(w, e) == <<[w |-> w, e |-> e], FloatZero, FloatZero>>

FloatShapes ==
    {<<StaticProp(FloatAt(8272, 0), <<0, 0, 0>>, "models/a.mdl", 0, 6, {1}),
       StaticProp(FloatAt(-768, 0), <<0, 0, 0>>, "models/a.mdl", 0, 6, {2}),
       StaticProp(FloatAt(0, 4096), <<0, 0, 0>>, "models/a.mdl", 0, 6, {3}),
       StaticProp(FloatAt(0, 0), <<0, 0, 0>>, "models/a.mdl", 0, 6, {4})>>,
     <<StaticProp(FloatAt(1536, 0), <<0, 0, 0>>, "models/a.mdl", 0, 6, {1}),
       StaticProp(FloatAt(-256, 0), <<0, 0, 0>>, "models/a.mdl", 0, 6, {2}),
       StaticProp(FloatAt(512, 0), <<0, 0, 0>>, "models/a.mdl", 0, 6, {3}),
       StaticProp(FloatAt(8192, 0), <<0, 0, 0>>, "models/a.mdl", 0, 6, {4})>>}

\* Every order the members of a group can be listed in
Orders(props) ==
    {[i \in 1..Len(props) |-> props[f[i]]] : f \in Permutations(1..Len(props))}

FloatGroups == UNION {Orders(sh) : sh \in FloatShapes}

\* combine_group, called directly with a group in any order
CombineOrdered ==
    /\ pc = "combine"
    /\ BagCardinality(looked) < MaxCalls
    /\ \E props \in FloatGroups : CombineFloats(props)
    /\ UNCHANGED <<run, pc, cache_file, loaded, persisted>>
    /\ UNCHANGED grpVars

NextFloat == Load \/ CombineOrdered \/ Finalise \/ NewRun

SpecFloat == InitCache /\ [][NextFloat]_vars

-----------------------------------------------------------------------------
(* Properties of the cache specification *)

\* The fingerprint the last combine_group() call looked up: the key of the
\* cache entry whose model it returned.
LastKey ==
    mdl_cache[CHOOSE i \in 1..Len(mdl_cache) : mdl_cache[i].name = ret.model].key

\* Largest whole number the fixed-point representation holds.
MaxWhole == 2147483647 \div Scale

Representable(props) ==
    \A i \in 1..Len(props) : \A a \in 1..3 :
        /\ Abs(props[i].origin[a]) * 2 <= MaxWhole
        /\ Abs(props[i].angles[a]) <= MaxWhole

Turns == {0, 90}

\* C1: moving every member of the group by one vector and turning every
\* member by one yaw angle about the vertical axis leaves the fingerprint
\* that combine_group computes unchanged.
C1_FingerprintInvariance ==
    arg # NoCall =>
        \A t \in {<<0, 0, 0>>, Shift} : \A yaw \in Turns :
            Representable(Transform(arg, t, yaw)) =>
                Fingerprint(Transform(arg, t, yaw)) = LastKey

\* C2: in one run compile() runs exactly once for every fingerprint looked
\* up that load() had not put in the cache, and never for one it had.
C2_OneBuildPerFingerprint ==
    /\ BagToSet(compiled) \subseteq BagToSet(looked)
    /\ \A k \in BagToSet(looked) :
          CopiesIn(k, compiled) = IF k \in loaded THEN 0 ELSE 1

\* Two calls with different groups of one fingerprint, compiled once.
C2_Witness ==
    /\ arg # NoCall
    /\ CopiesIn(LastKey, looked) >= 2
    /\ CopiesIn(LastKey, compiled) = 1
    /\ arg \notin Shapes

UsedNames == {mdl_cache[i].name : i \in {j \in 1..Len(mdl_cache) : mdl_cache[j].used}}

\* C11: after finalise() no file with one of the generated extensions
\* remains in the model folder under a name that is not the name of a
\* record used in this run.
C11_UnusedFilesCulled ==
    pc = "finalised" =>
        \A f \in files :
            f.ext \in {MDL_EXTS[i] : i \in 1..Len(MDL_EXTS)} => f.name \in UsedNames

\* C12: the cache file finalise() writes holds exactly the records whose
\* fingerprint combine_group looked up in this run; a record loaded from
\* the previous file and not looked up is not in it.
C12_PersistedAreLookedUp ==
    pc = "finalised" =>
        /\ {p.key : p \in persisted} = BagToSet(looked)
        /\ Len(cache_file.blocks) = Cardinality(BagToSet(looked))
        /\ \A p \in persisted : \E i \in 1..Len(cache_file.blocks) :
              /\ cache_file.blocks[i].name = p.name
              /\ cache_file.blocks[i].models = {ModelBlock(pos) : pos \in p.key}
        /\ \A k \in loaded \ BagToSet(looked) :
              \A i \in 1..Len(mdl_cache) :
                  mdl_cache[i].key = k =>
                      /\ ~mdl_cache[i].used
                      /\ \A j \in 1..Len(cache_file.blocks) :
                            cache_file.blocks[j].name # mdl_cache[i].name

\* A later run ended with a record loaded but never looked up, and another
\* one looked up and written.
C12_Witness ==
    /\ pc = "finalised"
    /\ run > 1
    /\ loaded \ BagToSet(looked) # {}
    /\ BagToSet(looked) # {}
    /\ Len(cache_file.blocks) = Cardinality(BagToSet(looked))

\* C13: loading the cache never ends the run: with the file missing,
\* unreadable or corrupt, combine() goes on to clustering, and with an
\* empty cache.
C13_LoadNeverFatal ==
    /\ pc # "raised"
    /\ (pc = "combine" /\ looked = EmptyBag /\ cache_file.damage # "none")
          => mdl_cache = <<>>

-----------------------------------------------------------------------------
(* The level: the static props of the map, already split by grouping key *)

\* Places props stand at.
Sites == <<<<0, 0, 0>>, <<100, 0, 0>>, <<200, 0, 0>>, <<0, 100, 0>>>>

Total(c) == c[1] + c[2] + c[3] + c[4]

\* The site of the k-th prop of a list holding c[1] props at site 1, then
\* c[2] at site 2, and so on.
SiteIn(c, k) ==
    IF k <= c[1] THEN 1
    ELSE IF k <= c[1] + c[2] THEN 2
    ELSE IF k <= c[1] + c[2] + c[3] THEN 3
    ELSE 4

NumProps(lv) == Total(lv.counts) + Total(lv.second)

InSecond(lv, id) == id > Total(lv.counts)

OriginOf(lv, id) ==
    IF InSecond(lv, id)
    THEN Sites[SiteIn(lv.second, id - Total(lv.counts))]
    ELSE Sites[SiteIn(lv.counts, id)]

VisleafsOf(id) == {id % 5, 10 + (id % 3)}

\* bsp.static_props(): the first counts are of models/a.mdl, the second of
\* models/b.mdl with another skin; the props of level.lit have the
\* lighting-origin flag set.
PropOf(lv, id) ==
    LET flags == IF id \in lv.lit THEN {"HAS_LIGHTING_ORIGIN"} ELSE {}
    IN IF InSecond(lv, id)
       THEN [StaticProp(OriginOf(lv, id), <<0, 0, 0>>, "models/b.mdl", 1, 6,
                        VisleafsOf(id)) EXCEPT !.flags = flags]
       ELSE [StaticProp(OriginOf(lv, id), <<0, 0, 0>>, "models/a.mdl", 0, 6,
                        VisleafsOf(id)) EXCEPT !.flags = flags]

PropsOf(lv, ids) == [i \in 1..Len(ids) |-> PropOf(lv, ids[i])]

\* frozenset(model.iter_textures([skin])): the materials a model shows
\* with a skin.
Textures(model, skin) == {<<model, skin>>}

\* The key get_grouping_key() returns for None.
NoKey == <<>>

GroupingKeyNoFlag(prop) ==
    <<Textures(prop.model, prop.skin), prop.flags,
      lookup_model(prop.model).contents, lookup_model(prop.model).surfaceprop,
      prop.solidity, prop.renderfx, prop.tint>>

\* get_grouping_key(prop), for props whose model has a QC and loads
GroupingKey(prop) ==
    IF "HAS_LIGHTING_ORIGIN" \in prop.flags THEN NoKey
    ELSE <<Textures(prop.model, prop.skin), prop.flags,
           lookup_model(prop.model).contents, lookup_model(prop.model).surfaceprop,
           prop.solidity, prop.renderfx, prop.tint>>

\* The ids of S in the order of bsp.static_props()
Ascending(S) ==
    LET In(id) == id \in S
        last == IF S = {} THEN 0 ELSE CHOOSE x \in S : \A y \in S : y <= x
    IN SelectSeq([i \in 1..last |-> i], In)

KeyOf(lv, id) == GroupingKey(PropOf(lv, id))

\* The props that open an entry of prop_groups: the first of each key. The
\* defaultdict keeps its entries in the order they were first appended to.
Firsts(lv) ==
    LET keys == [id \in 1..NumProps(lv) |-> KeyOf(lv, id)]
    IN {id \in 1..NumProps(lv) :
           keys[id] # NoKey /\ \A j \in 1..(id - 1) : keys[j] # keys[id]}

\* prop_groups[get_grouping_key(prop)].append(prop) over bsp.static_props(),
\* after prop_groups.pop(None, []), as the dict's entries
Buckets(lv) ==
    LET firsts == Ascending(Firsts(lv))
        keys == [id \in 1..NumProps(lv) |-> KeyOf(lv, id)]
    IN [b \in 1..Len(firsts) |->
          [key |-> keys[firsts[b]],
           items |-> Ascending({id \in 1..NumProps(lv) : keys[id] = keys[firsts[b]]})]]

\* One list of all props that have a key, whatever the key.
GroupsOfAnyKey(lv) ==
    IF Buckets(lv) = <<>> THEN <<>>
    ELSE <<Ascending({id \in 1..NumProps(lv) : KeyOf(lv, id) # NoKey})>>

\* the lists of prop_groups, in the dict's order
GroupsOf(lv) == [i \in 1..Len(Buckets(lv)) |-> Buckets(lv)[i].items]

\* prop_groups.pop(None, []): the props that cannot be merged at all
NoneGroup(lv) == Ascending({id \in 1..NumProps(lv) : KeyOf(lv, id) = NoKey})

\* Entries of final_props: a prop passed through, or a merged prop.
Rejected(id) == [id |-> id, prop |-> NoCall]
MergedEntry(prop) == [id |-> 0, prop |-> prop]

RejectAll(ids) == [i \in 1..Len(ids) |-> Rejected(ids[i])]

SeqToSet(q) == {q[i] : i \in 1..Len(q)}

-----------------------------------------------------------------------------
(* group_props_auto *)

MagSq(v) == v[1] * v[1] + v[2] * v[2] + v[3] * v[3]

VSub(u, v) == <<u[1] - v[1], u[2] - v[2], u[3] - v[3]>>

\* The subsets of S with k elements.
RECURSIVE KSubsets(_, _)
KSubsets(S, k) ==
    IF k = 0 THEN {{}}
    ELSE IF Cardinality(S) < k THEN {}
    ELSE LET x == CHOOSE y \in S : TRUE
         IN KSubsets(S \ {x}, k) \cup {T \cup {x} : T \in KSubsets(S \ {x}, k - 1)}

\* Props of todo within 2 * dist of the centre prop.
Near(lv, center, td) ==
    {p \in td : MagSq(VSub(OriginOf(lv, center), OriginOf(lv, p)))
                    <= 4 * lv.dist * lv.dist}

\* What the loop over todo can have put in `cluster` beside the centre: it
\* breaks once the cluster holds more than MAX_GROUP props, and a set is
\* walked in no particular order.
Gathers(near) ==
    IF Cardinality(near) <= MAX_GROUP THEN {near}
    ELSE {near \ out : out \in KSubsets(near, Cardinality(near) - MAX_GROUP)}

\* Vec.bbox() of the cluster, as bbox_min + bbox_max (twice center_pos)
BBoxSum(lv, cluster) ==
    [a \in 1..3 |->
        LET xs == {OriginOf(lv, p)[a] : p \in cluster}
        IN (CHOOSE lo \in xs : \A x \in xs : lo <= x)
           + (CHOOSE hi \in xs : \A x \in xs : hi >= x)]

\* 4 * (center_pos - prop.origin).mag_sq()
Off4(lv, bsum, p) ==
    LET o == OriginOf(lv, p)
    IN MagSq(<<bsum[1] - 2 * o[1], bsum[2] - 2 * o[2], bsum[3] - 2 * o[3]>>)

\* Props of the cluster with prop_off <= dist_sq
Within(lv, bsum, cluster) ==
    {p \in cluster : Off4(lv, bsum, p) <= 4 * lv.dist * lv.dist}

KeptsNoLimit(lv, bsum, within) == {within}

\* cluster_list[:MAX_GROUP] after the sort by offset: the props cut are the
\* farthest ones, props at the same offset falling either side of the cut.
Kepts(lv, bsum, within) ==
    IF Cardinality(within) <= MAX_GROUP THEN {within}
    ELSE LET k == Cardinality(within) - MAX_GROUP
             t == CHOOSE o \in {Off4(lv, bsum, p) : p \in within} :
                    /\ Cardinality({p \in within : Off4(lv, bsum, p) > o}) <= k
                    /\ Cardinality({p \in within : Off4(lv, bsum, p) >= o}) >= k
             sure == {p \in within : Off4(lv, bsum, p) > t}
             ties == {p \in within : Off4(lv, bsum, p) = t}
         IN {within \ (sure \cup c) : c \in KSubsets(ties, k - Cardinality(sure))}

\* The kept props as a list, nearest first (equal offsets by prop number).
RECURSIVE SortByOff(_, _, _)
SortByOff(lv, bsum, S) ==
    IF S = {} THEN <<>>
    ELSE LET m == CHOOSE p \in S : \A q \in S :
                      \/ Off4(lv, bsum, p) < Off4(lv, bsum, q)
                      \/ (Off4(lv, bsum, p) = Off4(lv, bsum, q) /\ p <= q)
         IN <<m>> \o SortByOff(lv, bsum, S \ {m})

\* A pool the seed was read from but not taken out of.
Peek(pool, center) == pool

\* center = todo.pop(): the pool without the seed
Pop(pool, center) == pool \ {center}

\* A pool that keeps the props of cluster_list.
KeepInPool(pool, cluster_list) == pool

\* todo.difference_update(cluster_list)
DifferenceUpdate(pool, cluster_list) == pool \ cluster_list

\* for group in prop_groups.values(): the next list, which is rejected
\* whole if it has fewer than two props.  combine() runs this grouper when
\* there are no comp_propcombine_set entities and auto_range > 0.
AutoGroup ==
    /\ pc = "combine"
    /\ gpc = "group"
    /\ level.ents = <<>>
    /\ level.dist > 0
    /\ IF gi > Len(prop_groups)
       THEN /\ gpc' = "done"
            /\ UNCHANGED <<gi, todo, final_props>>
       ELSE IF Len(prop_groups[gi]) < 2
       THEN /\ final_props' = final_props \o RejectAll(prop_groups[gi])
            /\ gi' = gi + 1
            /\ UNCHANGED <<gpc, todo>>
       ELSE /\ todo' = SeqToSet(prop_groups[gi])
            /\ gpc' = "seed"
            /\ UNCHANGED <<gi, final_props>>
    /\ UNCHANGED <<level, prop_groups, emitted, entVars, qcVars>>
    /\ UNCHANGED mgrVars

\* while todo: one pass that ends without a yield: the centre alone is
\* rejected, or the kept props are.
AutoReject ==
    /\ pc = "combine"
    /\ gpc = "seed"
    /\ \E center \in todo :
       \E rest \in {Pop(todo, center)} :
       \E got \in Gathers(Near(level, center, rest)) :
       \E cluster \in {got \cup {center}} :
          IF Cardinality(cluster) < level.min_cluster
          THEN /\ final_props' = Append(final_props, Rejected(center))
               /\ todo' = rest
               /\ gpc' = IF rest = {} THEN "group" ELSE "seed"
               /\ gi' = IF rest = {} THEN gi + 1 ELSE gi
          ELSE \E bsum \in {BBoxSum(level, cluster)} :
               \E kept \in Kepts(level, bsum, Within(level, bsum, cluster)) :
               /\ Cardinality(kept) < level.min_cluster
               /\ final_props' = final_props \o RejectAll(SortByOff(level, bsum, kept))
               /\ todo' = DifferenceUpdate(rest, kept)
               /\ gpc' = IF DifferenceUpdate(rest, kept) = {} THEN "group" ELSE "seed"
               /\ gi' = IF DifferenceUpdate(rest, kept) = {} THEN gi + 1 ELSE gi
    /\ UNCHANGED <<level, prop_groups, emitted, entVars, qcVars>>
    /\ UNCHANGED mgrVars

\* while todo: one pass that yields cluster_list; combine() passes it to
\* combine_group() and appends the merged prop to final_props.
AutoYield ==
    /\ pc = "combine"
    /\ gpc = "seed"
    /\ \E center \in todo :
       \E rest \in {Pop(todo, center)} :
       \E got \in Gathers(Near(level, center, rest)) :
       \E cluster \in {got \cup {center}} :
          /\ Cardinality(cluster) >= level.min_cluster
          /\ \E bsum \in {BBoxSum(level, cluster)} :
             \E kept \in Kepts(level, bsum, Within(level, bsum, cluster)) :
               /\ Cardinality(kept) >= level.min_cluster
               /\ \E cluster_list \in {SortByOff(level, bsum, kept)} :
                  /\ todo' = DifferenceUpdate(rest, kept)
                  /\ gpc' = IF DifferenceUpdate(rest, kept) = {} THEN "group" ELSE "seed"
                  /\ gi' = IF DifferenceUpdate(rest, kept) = {} THEN gi + 1 ELSE gi
                  /\ emitted' = Append(emitted, cluster_list)
                  /\ CombineGroup(PropsOf(level, cluster_list))
                  /\ final_props' = Append(final_props, MergedEntry(ret'))
    /\ UNCHANGED <<level, prop_groups, entVars, qcVars>>
    /\ UNCHANGED <<run, pc, cache_file, loaded, persisted>>

\* The grouper is exhausted: combine() leaves its loop and calls finalise().
GrouperDone == gpc = "done"

FinaliseLevel == GrouperDone /\ Finalise

-----------------------------------------------------------------------------
(* group_props_ent *)

VAdd(u, v) == <<u[1] + v[1], u[2] + v[2], u[3] + v[3]>>

Min2(a, b) == IF a <= b THEN a ELSE b
Max2(a, b) == IF a >= b THEN a ELSE b

HexDigits == <<"0", "1", "2", "3", "4", "5", "6", "7", "8", "9",
               "A", "B", "C", "D", "E", "F">>

\* ent['name'] or format(int(ent['hammerid']), 'X'), for ids below 16
EntName(ent) == IF ent.name # "" THEN ent.name ELSE HexDigits[ent.hammerid + 1]

\* The skinset of an ent: empty unless it names a prop model.
EntSkinset(ent) == IF ent.prop = "" THEN {} ELSE Textures(ent.prop, ent.skin)

\* Vec.bbox(mins + origin, maxs + origin)
EntBox(ent) ==
    LET a == VAdd(ent.mins, ent.origin)
        b == VAdd(ent.maxs, ent.origin)
    IN [bb_min |-> <<Min2(a[1], b[1]), Min2(a[2], b[2]), Min2(a[3], b[3])>>,
        bb_max |-> <<Max2(a[1], b[1]), Max2(a[2], b[2]), Max2(a[3], b[3])>>]

in_bbox(pos, bb_min, bb_max) ==
    /\ ~(pos[1] < bb_min[1] \/ bb_max[1] < pos[1])
    /\ ~(pos[2] < bb_min[2] \/ bb_max[2] < pos[2])
    /\ ~(pos[3] < bb_min[3] \/ bb_max[3] < pos[3])

\* bbox_groups[name, skinset].append(box) on an insertion-ordered dict
AddBox(groups, name, skinset, box) ==
    IF \E i \in 1..Len(groups) :
          groups[i].name = name /\ groups[i].skinset = skinset
    THEN [i \in 1..Len(groups) |->
            IF groups[i].name = name /\ groups[i].skinset = skinset
            THEN [groups[i] EXCEPT !.bboxes = Append(@, box)]
            ELSE groups[i]]
    ELSE Append(groups, [name |-> name, skinset |-> skinset, bboxes |-> <<box>>])

RECURSIVE BBoxGroupsTo(_, _)
BBoxGroupsTo(ents, k) ==
    IF k = 0 THEN <<>>
    ELSE AddBox(BBoxGroupsTo(ents, k - 1), EntName(ents[k]),
                EntSkinset(ents[k]), EntBox(ents[k]))

\* bbox_groups after the loop over bbox_ents
BBoxGroups(lv) == BBoxGroupsTo(lv.ents, Len(lv.ents))

\* group_key[0] of the entries of prop_groups, in the order of GroupsOf
GroupSkinsets(lv) ==
    LET firsts == Ascending(Firsts(lv))
    IN [b \in 1..Len(firsts) |-> KeyOf(lv, firsts[b])[1]]

\* not (skinset and skinset != group_skinset)
Matches(region, group_skinset) ==
    ~(region.skinset # {} /\ region.skinset # group_skinset)

InAnyBox(lv, p, bboxes) ==
    \E i \in 1..Len(bboxes) :
        in_bbox(OriginOf(lv, p), bboxes[i].bb_min, bboxes[i].bb_max)

\* found[id(bboxes)] after the loop over list(group)
FoundIn(lv, list, bboxes) ==
    LET Test(p) == InAnyBox(lv, p, bboxes)
    IN SelectSeq(list, Test)

\* the list after every group.remove(prop) of that loop
Remaining(lv, list, bboxes) ==
    LET Test(p) == ~InAnyBox(lv, p, bboxes)
    IN SelectSeq(list, Test)

NotCleared(list) == list

\* group.clear()
Cleared(list) == <<>>

\* The list the variable `group` names.
CurList == IF group.found THEN group.items ELSE prop_groups[gi]

RECURSIVE Concat(_, _)
Concat(lists, k) ==
    IF k = 0 THEN <<>> ELSE Concat(lists, k - 1) \o lists[k]

\* for group_key, group in prop_groups.items(): an entry with fewer than
\* min_cluster props is rejected whole and emptied.
EntSmall ==
    /\ pc = "combine"
    /\ gpc = "group"
    /\ level.ents # <<>>
    /\ gi <= Len(prop_groups)
    /\ Len(prop_groups[gi]) < level.min_cluster
    /\ final_props' = final_props \o RejectAll(prop_groups[gi])
    /\ prop_groups' = [prop_groups EXCEPT ![gi] = Cleared(@)]
    /\ gi' = gi + 1
    /\ group' = OfDict
    /\ UNCHANGED <<level, emitted, gpc, todo, ri, made, qcVars>>
    /\ UNCHANGED mgrVars

\* for group_key, group in prop_groups.items(): an entry with enough props
\* goes to the loop over bbox_groups.
EntGroup ==
    /\ pc = "combine"
    /\ gpc = "group"
    /\ level.ents # <<>>
    /\ gi <= Len(prop_groups)
    /\ Len(prop_groups[gi]) >= level.min_cluster
    /\ group' = OfDict
    /\ ri' = 1
    /\ gpc' = "region"
    /\ UNCHANGED <<level, prop_groups, final_props, emitted, gi, todo, made,
                   qcVars>>
    /\ UNCHANGED mgrVars

\* The last loop: everything still in the lists of prop_groups is rejected.
EntRest ==
    /\ pc = "combine"
    /\ gpc = "group"
    /\ level.ents # <<>>
    /\ gi > Len(prop_groups)
    /\ final_props' = final_props \o RejectAll(Concat(prop_groups, Len(prop_groups)))
    /\ gpc' = "done"
    /\ UNCHANGED <<level, prop_groups, emitted, gi, todo, entVars, qcVars>>
    /\ UNCHANGED mgrVars

\* The loop over bbox_groups moves to its next entry, or ends.
NextRegion ==
    IF ri < Len(BBoxGroups(level))
    THEN /\ ri' = ri + 1
         /\ UNCHANGED <<gi, gpc>>
    ELSE /\ ri' = 0
         /\ gi' = gi + 1
         /\ gpc' = "group"

\* One entry of bbox_groups that yields nothing: its skinset does not match,
\* or no prop of `group` is in its boxes.
EntNoMatch ==
    /\ pc = "combine"
    /\ gpc = "region"
    /\ \E region \in {BBoxGroups(level)[ri]} :
          \/ ~Matches(region, GroupSkinsets(level)[gi])
          \/ FoundIn(level, CurList, region.bboxes) = <<>>
    /\ NextRegion
    /\ UNCHANGED <<level, prop_groups, final_props, emitted, todo, group, made,
                   qcVars>>
    /\ UNCHANGED mgrVars

\* One entry of bbox_groups whose found list is too short: its props are
\* taken out of `group`, the found list is bound to `group` and rejected.
EntReject ==
    /\ pc = "combine"
    /\ gpc = "region"
    /\ \E region \in {BBoxGroups(level)[ri]} :
       \E list \in {FoundIn(level, CurList, region.bboxes)} :
          /\ Matches(region, GroupSkinsets(level)[gi])
          /\ list # <<>>
          /\ Len(list) < level.min_cluster
          /\ prop_groups' = IF group.found THEN prop_groups
                            ELSE [prop_groups EXCEPT
                                    ![gi] = Remaining(level, @, region.bboxes)]
          /\ group' = Found(list)
          /\ made' = Append(made, [bucket |-> gi, region |-> ri, items |-> list])
          /\ final_props' = final_props \o RejectAll(list)
    /\ NextRegion
    /\ UNCHANGED <<level, emitted, todo, qcVars>>
    /\ UNCHANGED mgrVars

\* One entry of bbox_groups whose found list is long enough: its props are
\* taken out of `group`, the found list is bound to `group` and yielded;
\* combine() passes it to combine_group() and keeps the merged prop.
EntYield ==
    /\ pc = "combine"
    /\ gpc = "region"
    /\ \E region \in {BBoxGroups(level)[ri]} :
       \E list \in {FoundIn(level, CurList, region.bboxes)} :
          /\ Matches(region, GroupSkinsets(level)[gi])
          /\ list # <<>>
          /\ Len(list) >= level.min_cluster
          /\ prop_groups' = IF group.found THEN prop_groups
                            ELSE [prop_groups EXCEPT
                                    ![gi] = Remaining(level, @, region.bboxes)]
          /\ group' = Found(list)
          /\ made' = Append(made, [bucket |-> gi, region |-> ri, items |-> list])
          /\ emitted' = Append(emitted, list)
          /\ CombineGroup(PropsOf(level, list))
          /\ final_props' = Append(final_props, MergedEntry(ret'))
    /\ NextRegion
    /\ UNCHANGED <<level, todo, qcVars>>
    /\ UNCHANGED <<run, pc, cache_file, loaded, persisted>>

-----------------------------------------------------------------------------
(* The automatic specification: one compile with auto_range > 0 *)

\* Small levels: each site empty or holding one prop.
SmallCounts == [1..4 -> {0, 1}]

\* Levels with more props in reach of each other than one model may hold:
\* one past MAX_GROUP on one spot, and MAX_GROUP props with one either side.
CrowdedCounts == {<<MAX_GROUP + 1, 0, 0, 0>>, <<1, MAX_GROUP, 1, 0>>}

Dists == {150, 100, 60}
MinClusters == {1, 2, 3}

\* The props of a level that have the lighting-origin flag: none, or the
\* first one.
Lits == {{}, {1}}

AutoLevels ==
    {lv \in {[counts |-> c, second |-> s, lit |-> l, dist |-> d,
              min_cluster |-> m, ents |-> <<>>] :
                c \in SmallCounts, s \in {<<0, 0, 0, 0>>, <<1, 1, 0, 0>>},
                l \in Lits, d \in Dists, m \in MinClusters} :
        lv.lit \subseteq 1..NumProps(lv)}
    \cup
    {[counts |-> c, second |-> <<0, 0, 0, 0>>, lit |-> {}, dist |-> 150,
      min_cluster |-> m, ents |-> <<>>] : c \in CrowdedCounts, m \in {2}}

InitAuto ==
    /\ InitManager
    /\ level \in AutoLevels
    /\ prop_groups = GroupsOf(level)
    /\ final_props = RejectAll(NoneGroup(level))
    /\ emitted = <<>>
    /\ gi = 1
    /\ gpc = "group"
    /\ todo = {}
    /\ IdleEnt
    /\ IdleQC

NextAuto == Load \/ AutoGroup \/ AutoReject \/ AutoYield \/ FinaliseLevel

SpecAuto == InitAuto /\ [][NextAuto]_vars

\* combine() is one thread that runs until it returns: a step that can be
\* taken is taken.  Every yield takes at least min_cluster props out of the
\* pool, so in these levels the name loop of combine_group() always finds a
\* free name.
InitAutoLive == InitAuto /\ NumProps(level) <= NumNames * level.min_cluster

SpecAutoLive == InitAutoLive /\ [][NextAuto]_vars /\ WF_vars(NextAuto)

-----------------------------------------------------------------------------
(* The region specification: one compile with comp_propcombine_set ents *)

MaxEnts == 2       \* comp_propcombine_set ents in a level

Cube == [mins |-> <<-10, -10, -10>>, maxs |-> <<10, 10, 10>>]

Ent(name, hammerid, prop, skin, origin, mins, maxs) ==
    [name |-> name, hammerid |-> hammerid, prop |-> prop, skin |-> skin,
     origin |-> origin, mins |-> mins, maxs |-> maxs]

\* Ents a level can hold: boxes about the first site, about the second,
\* the second again under the first name, a model-filtered box over both,
\* and an unnamed box from the second site (on its face) past the third.
EntPool ==
    <<Ent("r1", 10, "", 0, Sites[1], Cube.mins, Cube.maxs),
      Ent("r2", 11, "", 0, Sites[2], Cube.mins, Cube.maxs),
      Ent("r1", 12, "", 0, Sites[2], Cube.mins, Cube.maxs),
      Ent("r2", 13, "models/b.mdl", 1, <<50, 0, 0>>, <<-60, -10, -10>>, <<60, 10, 10>>),
      Ent("", 14, "", 0, Sites[2], <<0, -10, -10>>, <<110, 10, 10>>)>>

EntLists ==
    UNION {{[i \in 1..n |-> EntPool[f[i]]] : f \in [1..n -> 1..Len(EntPool)]} :
              n \in 1..MaxEnts}

EntLevels ==
    {[counts |-> c, second |-> s, lit |-> {}, dist |-> 0, min_cluster |-> m,
      ents |-> e] :
        c \in SmallCounts, s \in {<<0, 0, 0, 0>>, <<1, 1, 0, 0>>},
        m \in {1, 2}, e \in EntLists}
    \cup
    {[counts |-> c, second |-> <<0, 0, 0, 0>>, lit |-> {}, dist |-> 0,
      min_cluster |-> 2,
      ents |-> <<EntPool[1]>>] : c \in CrowdedCounts}

InitEnt ==
    /\ InitManager
    /\ level \in EntLevels
    /\ prop_groups = GroupsOf(level)
    /\ final_props = RejectAll(NoneGroup(level))
    /\ emitted = <<>>
    /\ gi = 1
    /\ gpc = "group"
    /\ todo = {}
    /\ IdleEnt
    /\ IdleQC

NextEnt ==
    \/ Load
    \/ EntSmall
    \/ EntGroup
    \/ EntNoMatch
    \/ EntReject
    \/ EntYield
    \/ EntRest
    \/ FinaliseLevel

SpecEnt == InitEnt /\ [][NextEnt]_vars

-----------------------------------------------------------------------------
(* Both groupers: combine() takes group_props_ent when the map has
   comp_propcombine_set entities, and else group_props_auto *)

GroupLevels ==
    {lv \in AutoLevels : NumProps(lv) <= Len(Sites) + 2}
    \cup {lv \in EntLevels : NumProps(lv) <= Len(Sites) + 2 /\ Len(lv.ents) <= 2}

InitGroup ==
    /\ InitManager
    /\ level \in GroupLevels
    /\ prop_groups = GroupsOf(level)
    /\ final_props = RejectAll(NoneGroup(level))
    /\ emitted = <<>>
    /\ gi = 1
    /\ gpc = "group"
    /\ todo = {}
    /\ IdleEnt
    /\ IdleQC

NextGroup ==
    \/ Load
    \/ AutoGroup
    \/ AutoReject
    \/ AutoYield
    \/ EntSmall
    \/ EntGroup
    \/ EntNoMatch
    \/ EntReject
    \/ EntYield
    \/ EntRest
    \/ FinaliseLevel

SpecGroup == InitGroup /\ [][NextGroup]_vars

-----------------------------------------------------------------------------
(* load_qcs *)

None == "<None>"

Tok(type, value) == [type |-> type, value |-> value]
Str(value) == Tok("STRING", value)
Newline == Tok("NEWLINE", "")
BraceOpen == Tok("BRACE_OPEN", "{")
BraceClose == Tok("BRACE_CLOSE", "}")

\* The keywords that make a QC a dynamic model.
Disallowed == {"$collisionjoints", "$ikchain", "$weightlist", "$poseparameter",
               "$proceduralbones", "$jigglebone", "$keyvalues"}

\* float(), on the numbers QC files of the model hold
Float(v) ==
    CASE v = "2" -> 2
      [] v = "3" -> 3
      [] OTHER -> 1

\* Path.suffix.casefold(), on the mesh names QC files of the model hold
MeshSuffix(v) ==
    CASE v \in {"ref.smd", "a.smd", "b.smd", "phy.smd"} -> ".smd"
      [] v = "ref.fbx" -> ".fbx"
      [] OTHER -> ""

\* unify_mdl(): casefolded, forward slashes, under models/, ending in .mdl
unify_mdl(path) ==
    CASE path = "props/m" -> "models/props/m.mdl"
      [] path = "Props\\M.mdl" -> "models/props/m.mdl"
      [] OTHER -> path

QC(path, ref_smd, phy_smd, ref_scale, phy_scale) ==
    [path |-> path, ref_smd |-> ref_smd, phy_smd |-> phy_smd,
     ref_scale |-> ref_scale, phy_scale |-> phy_scale]

\* The locals of load_qcs at the top of the loop over the files.
FreshQC ==
    [model_name |-> None, ref_smd |-> None, phy_smd |-> None,
     scale_factor |-> 1, ref_scale |-> 1, phy_scale |-> 1]

\* How the scan of one file ends: "end" (end of file, or the break),
\* "dynamic" (DynamicModel raised), "syntax" (TokenSyntaxError raised).
Ends(how, q) == [how |-> how, q |-> q]

\* The tokenizer skipping newlines: the first index at or after i that does
\* not hold a NEWLINE.
RECURSIVE SkipNewlines(_, _)
SkipNewlines(toks, i) ==
    IF i <= Len(toks) /\ toks[i].type = "NEWLINE"
    THEN SkipNewlines(toks, i + 1)
    ELSE i

IsType(toks, i, type) == i <= Len(toks) /\ toks[i].type = type

\* model_name and ref_smd and phy_smd
GotAll(q) ==
    /\ q.model_name # None /\ q.model_name # ""
    /\ q.ref_smd # None
    /\ q.phy_smd # None

RECURSIVE Scan(_, _, _)
RECURSIVE Body(_, _, _)
RECURSIVE Block(_, _, _)

\* for token_type, token_value in tok: from token i on
Scan(toks, i, q) ==
    IF i > Len(toks) THEN Ends("end", q)
    ELSE IF GotAll(q) THEN Ends("end", q)
    ELSE IF toks[i].type # "STRING" THEN Scan(toks, i + 1, q)
    ELSE LET v == Casefold(toks[i].value)
             j == SkipNewlines(toks, i + 1)
         IN CASE v = "$scale" ->
                   IF ~IsType(toks, j, "STRING") THEN Ends("syntax", q)
                   ELSE Scan(toks, j + 1,
                             [q EXCEPT !.scale_factor = Float(toks[j].value)])
              [] v = "$modelname" ->
                   IF ~IsType(toks, j, "STRING") THEN Ends("syntax", q)
                   ELSE Scan(toks, j + 1, [q EXCEPT !.model_name = toks[j].value])
              [] v \in {"$bodygroup", "$body", "$model"} ->
                   IF ~IsType(toks, j, "STRING") THEN Ends("syntax", q)
                   ELSE Body(toks, j + 1, q)
              [] v = "$collisionmodel" ->
                   IF ~IsType(toks, j, "STRING") THEN Ends("syntax", q)
                   ELSE Scan(toks, j + 1,
                             [q EXCEPT !.phy_smd = toks[j].value,
                                       !.phy_scale = q.scale_factor])
              [] v \in Disallowed -> Ends("dynamic", q)
              [] OTHER -> Scan(toks, i + 1, q)

\* body_type, body_value = tok(), after the group name
Body(toks, i, q) ==
    IF IsType(toks, i, "STRING")
    THEN IF q.ref_smd # None THEN Ends("dynamic", q)
         ELSE Scan(toks, i + 1, [q EXCEPT !.ref_smd = toks[i].value,
                                          !.ref_scale = q.scale_factor])
    ELSE IF IsType(toks, i, "NEWLINE")
    THEN IF IsType(toks, SkipNewlines(toks, i + 1), "BRACE_OPEN")
         THEN Block(toks, SkipNewlines(toks, i + 1) + 1, q)
         ELSE Ends("syntax", q)
    ELSE IF IsType(toks, i, "BRACE_OPEN") THEN Block(toks, i + 1, q)
    ELSE Ends("syntax", q)

\* for body_type, body_value in tok: inside the braces
Block(toks, i, q) ==
    IF i > Len(toks) THEN Ends("end", q)
    ELSE IF toks[i].type = "BRACE_CLOSE" THEN Scan(toks, i + 1, q)
    ELSE IF toks[i].type = "STRING"
    THEN IF Casefold(toks[i].value) = "studio"
         THEN IF q.ref_smd # None THEN Ends("dynamic", q)
              ELSE LET j == SkipNewlines(toks, i + 1)
                   IN IF ~IsType(toks, j, "STRING") THEN Ends("syntax", q)
                      ELSE Block(toks, j + 1,
                                 [q EXCEPT !.ref_smd = toks[j].value,
                                           !.ref_scale = q.scale_factor])
         ELSE Block(toks, i + 1, q)
    ELSE IF toks[i].type = "NEWLINE" THEN Block(toks, i + 1, q)
    ELSE Ends("syntax", q)

\* The checks between the scan and the qc_map entry.
Usable(q) ==
    /\ ~(q.model_name = None \/ q.ref_smd = None)
    /\ MeshSuffix(q.ref_smd) \in {".smd", ".dmx"}
    /\ q.phy_smd # None => MeshSuffix(q.phy_smd) \in {".smd", ".dmx"}

\* The tokens of a QC file, statement by statement.
Statement(kind, keyword) ==
    CASE kind = "name" -> <<Str("$ModelName"), Str("props/m"), Newline>>
      [] kind = "body" -> <<Str("$body"), Str("body"), Str("ref.smd"), Newline>>
      [] kind = "model" -> <<Str("$model"), Str("body"), Str("ref.fbx"), Newline>>
      [] kind = "group" ->
            <<Str("$bodygroup"), Str("body"), Newline, BraceOpen, Newline,
              Str("studio"), Str("a.smd"), Newline,
              Str("Studio"), Str("b.smd"), Newline, BraceClose, Newline>>
      [] kind = "coll" -> <<Str("$collisionmodel"), Str("phy.smd"), Newline>>
      [] kind = "scale" -> <<Str("$scale"), Str("2"), Newline>>
      [] kind = "bad" -> <<Str(keyword), Str("x"), Newline>>
      [] kind = "open" -> <<Str("$body"), Str("body"), BraceClose, Newline>>

RECURSIVE TokensTo(_, _)
TokensTo(file, k) ==
    IF k = 0 THEN <<>>
    ELSE TokensTo(file, k - 1) \o Statement(file.stmts[k], file.keyword)

TokensOf(file) == TokensTo(file, Len(file.stmts))

ScanFile(file) == Scan(TokensOf(file), 1, FreshQC)

\* The file is scanned to its end or to the break, and passes the checks:
\* it gets its entry in qc_map.
QCAccept ==
    /\ qpc = "scan"
    /\ qi <= Len(qc_folder)
    /\ \E res \in {ScanFile(qc_folder[qi])} :
          /\ res.how = "end"
          /\ Usable(res.q)
          /\ qc_map' = DictSet(qc_map,
                [key |-> unify_mdl(res.q.model_name),
                 qc |-> QC(qc_folder[qi].path, res.q.ref_smd, res.q.phy_smd,
                           res.q.ref_scale, res.q.phy_scale)])
    /\ qi' = qi + 1
    /\ UNCHANGED <<qc_folder, qpc>>
    /\ UNCHANGED <<level, prop_groups, final_props, emitted, gi, gpc, todo, entVars>>
    /\ UNCHANGED mgrVars

\* DynamicModel is raised and caught: on to the next file.
QCDynamic ==
    /\ qpc = "scan"
    /\ qi <= Len(qc_folder)
    /\ ScanFile(qc_folder[qi]).how = "dynamic"
    /\ qi' = qi + 1
    /\ UNCHANGED <<qc_folder, qc_map, qpc>>
    /\ UNCHANGED <<level, prop_groups, final_props, emitted, gi, gpc, todo, entVars>>
    /\ UNCHANGED mgrVars

\* The file is scanned but lacks a name or a reference mesh, or a mesh is
\* not SMD/DMX: a warning, and on to the next file.
QCSkip ==
    /\ qpc = "scan"
    /\ qi <= Len(qc_folder)
    /\ \E res \in {ScanFile(qc_folder[qi])} :
          /\ res.how = "end"
          /\ ~Usable(res.q)
    /\ qi' = qi + 1
    /\ UNCHANGED <<qc_folder, qc_map, qpc>>
    /\ UNCHANGED <<level, prop_groups, final_props, emitted, gi, gpc, todo, entVars>>
    /\ UNCHANGED mgrVars

\* The tokenizer raises TokenSyntaxError, which load_qcs does not catch.
QCRaise ==
    /\ qpc = "scan"
    /\ qi <= Len(qc_folder)
    /\ ScanFile(qc_folder[qi]).how = "syntax"
    /\ qpc' = "raised"
    /\ UNCHANGED <<qc_folder, qi, qc_map>>
    /\ UNCHANGED <<level, prop_groups, final_props, emitted, gi, gpc, todo, entVars>>
    /\ UNCHANGED mgrVars

\* return qc_map
QCReturn ==
    /\ qpc = "scan"
    /\ qi > Len(qc_folder)
    /\ qpc' = "returned"
    /\ UNCHANGED <<qc_folder, qi, qc_map>>
    /\ UNCHANGED <<level, prop_groups, final_props, emitted, gi, gpc, todo, entVars>>
    /\ UNCHANGED mgrVars

-----------------------------------------------------------------------------
(* The QC specification: load_qcs over a folder *)

MaxStmts == 4      \* statements in a QC file

Kinds == {"name", "body", "model", "group", "coll", "scale", "bad", "open"}

StmtLists == UNION {[1..n -> Kinds] : n \in 0..MaxStmts}

HasKind(stmts, kind) == \E k \in 1..Len(stmts) : stmts[k] = kind

\* QC files: any statements in any order; the keyword of a "bad" statement
\* is one of the disallowed ones.
QCFiles ==
    {[path |-> "m.qc", stmts |-> st, keyword |-> kw] :
        st \in StmtLists,
        kw \in Disallowed}

\* A well-formed QC of another model, read after the first.
Plain == [path |-> "n.qc", stmts |-> <<"body", "coll">>, keyword |-> "$keyvalues"]

Folders ==
    {<<f>> : f \in {g \in QCFiles : HasKind(g.stmts, "bad") \/ g.keyword = "$jigglebone"}}
    \cup {<<f, Plain>> : f \in {g \in QCFiles : Len(g.stmts) <= 1 /\ g.keyword = "$jigglebone"}}

InitQC ==
    /\ InitManager
    /\ level = NoLevel
    /\ prop_groups = <<>>
    /\ final_props = <<>>
    /\ emitted = <<>>
    /\ gi = 0
    /\ gpc = "done"
    /\ todo = {}
    /\ IdleEnt
    /\ qc_folder \in Folders
    /\ qi = 1
    /\ qc_map = <<>>
    /\ qpc = "scan"

NextQC == QCAccept \/ QCDynamic \/ QCSkip \/ QCRaise \/ QCReturn

SpecQC == InitQC /\ [][NextQC]_vars

-----------------------------------------------------------------------------
(* Properties of the automatic specification *)

\* C4: every cluster group_props_auto emits has at most MAX_GROUP members
\* and at least min_cluster members, for every bucket, radius, min_cluster
\* and choice of seeds.
C4_ClusterBounds ==
    \A i \in 1..Len(emitted) :
        /\ Len(emitted[i]) <= MAX_GROUP
        /\ Len(emitted[i]) >= level.min_cluster

\* A full cluster was emitted from a bucket of more than MAX_GROUP props
\* that were all gathered around the seed.
C4_Witness ==
    /\ NumProps(level) > MAX_GROUP
    /\ \E i \in 1..Len(emitted) : Len(emitted[i]) = MAX_GROUP

\* The level of the scenario: props 1, 2, 3 of one bucket at x = 0, 100, 200.
ThreeInARow ==
    /\ level.counts = <<1, 1, 1, 0>>
    /\ level.second = <<0, 0, 0, 0>>
    /\ level.lit = {}
    /\ level.dist = 150
    /\ level.min_cluster = 2

\* C8: for three props of one bucket at x = 0, 100, 200 with min_cluster 2
\* and radius 150, whatever the seed, the grouper emits exactly one cluster
\* of all three and rejects none, and the merged prop has origin (100,0,0)
\* and the union of the three visleaf sets.
C8_ThreeInARow ==
    (ThreeInARow /\ gpc = "done") =>
        /\ Len(emitted) = 1
        /\ SeqToSet(emitted[1]) = {1, 2, 3}
        /\ Len(emitted[1]) = 3
        /\ Len(final_props) = 1
        /\ final_props[1].id = 0
        /\ final_props[1].prop.origin = <<100 * Scale, 0, 0>>
        /\ SeqToSet(final_props[1].prop.visleafs)
             = VisleafsOf(1) \cup VisleafsOf(2) \cup VisleafsOf(3)

C8_Witness ==
    /\ ThreeInARow
    /\ gpc = "done"
    /\ Len(emitted) = 1
    /\ Len(final_props) = 1
    /\ final_props[1].prop.origin = <<100 * Scale, 0, 0>>

-----------------------------------------------------------------------------
(* Properties of the region specification *)

\* C5: every cluster group_props_ent emits, and so passes to combine_group,
\* has between min_cluster and MAX_GROUP members, however many props of a
\* bucket lie inside a region's boxes.
C5_EntClusterBounds ==
    level.ents # <<>> =>
        \A i \in 1..Len(emitted) :
            /\ level.min_cluster <= Len(emitted[i])
            /\ Len(emitted[i]) <= MAX_GROUP

\* The entry of prop_groups a prop was put in.
BucketOf(lv, id) ==
    LET firsts == Ascending(Firsts(lv))
    IN CHOOSE b \in 1..Len(firsts) : KeyOf(lv, firsts[b]) = KeyOf(lv, id)

StrictlyIn(pos, box) ==
    \A a \in 1..3 : box.bb_min[a] < pos[a] /\ pos[a] < box.bb_max[a]

\* The regions whose filter admits the prop's bucket and that have a box
\* the prop is in.
RegionsOf(lv, id) ==
    LET bbox_groups == BBoxGroups(lv)
        group_skinset == KeyOf(lv, id)[1]
    IN {r \in 1..Len(bbox_groups) :
           /\ Matches(bbox_groups[r], group_skinset)
           /\ InAnyBox(lv, id, bbox_groups[r].bboxes)}

\* C6: when the generator is exhausted, a prop of a bucket with at least
\* min_cluster props that lies strictly inside a box of exactly one matching
\* region is in the group found for that region and its bucket, whatever
\* other regions exist and whatever an earlier region captured.
C6_RegionAssignment ==
    gpc = "done" =>
        \A id \in 1..NumProps(level) : \A r \in 1..Len(BBoxGroups(level)) :
            ( /\ Len(GroupsOf(level)[BucketOf(level, id)]) >= level.min_cluster
              /\ RegionsOf(level, id) = {r}
              /\ \E b \in 1..Len(BBoxGroups(level)[r].bboxes) :
                    StrictlyIn(OriginOf(level, id), BBoxGroups(level)[r].bboxes[b]) )
            => \E m \in 1..Len(made) :
                  /\ made[m].bucket = BucketOf(level, id)
                  /\ made[m].region = r
                  /\ id \in SeqToSet(made[m].items)

\* How often a prop was passed through to final_props unmerged.
TimesRejected(id) ==
    Cardinality({i \in 1..Len(final_props) : final_props[i] = Rejected(id)})

\* C7: a prop that lies in no box of any matching region is never a member
\* of an emitted cluster, and when the generator is exhausted it is in the
\* rejected list exactly once.
C7_OutsideRejectedOnce ==
    level.ents # <<>> =>
        \A id \in 1..NumProps(level) :
            RegionsOf(level, id) = {} =>
                /\ \A i \in 1..Len(emitted) : id \notin SeqToSet(emitted[i])
                /\ gpc = "done" => TimesRejected(id) = 1

\* The generator is exhausted in a level where a prop outside every box was
\* in a bucket too small to merge, and another bucket gave a cluster.
C7_Witness ==
    /\ gpc = "done"
    /\ Len(emitted) > 0
    /\ \E id \in 1..NumProps(level) :
          /\ RegionsOf(level, id) = {}
          /\ Len(GroupsOf(level)[BucketOf(level, id)]) < level.min_cluster
          /\ TimesRejected(id) = 1

-----------------------------------------------------------------------------
(* Properties of the QC specification *)

\* The file of the folder an entry of qc_map was made from.
FileOf(entry) == CHOOSE f \in SeqToSet(qc_folder) : f.path = entry.qc.path

\* C9: a QC file that holds any of the disallowed declarations never gets an
\* entry in qc_map, wherever the declaration stands in the file, also after
\* the model name, the reference mesh and the collision model.
C9_NoDynamicEntry ==
    \A e \in 1..Len(qc_map) : ~HasKind(FileOf(qc_map[e]).stmts, "bad")

\* Reference meshes a file declares: one per $body/$model, two in the block.
RECURSIVE RefMeshes(_, _)
RefMeshes(stmts, k) ==
    IF k = 0 THEN 0
    ELSE RefMeshes(stmts, k - 1)
         + (CASE stmts[k] \in {"body", "model"} -> 1
              [] stmts[k] = "group" -> 2
              [] OTHER -> 0)

\* C10: a QC file that declares more than one reference mesh never gets an
\* entry in qc_map, wherever the second declaration stands in the file, also
\* after a $collisionmodel.
C10_OneReferenceMesh ==
    \A e \in 1..Len(qc_map) :
        RefMeshes(FileOf(qc_map[e]).stmts, Len(FileOf(qc_map[e]).stmts)) <= 1

\* C14: a prop with the lighting-origin flag is in no bucket handed to the
\* grouper and in no emitted cluster, and it is in the final prop list
\* exactly once, passed through as it was.
C14_LitNeverMerged ==
    \A id \in level.lit :
        /\ \A b \in 1..Len(prop_groups) : id \notin SeqToSet(prop_groups[b])
        /\ \A i \in 1..Len(emitted) : id \notin SeqToSet(emitted[i])
        /\ TimesRejected(id) = 1

\* The grouper is exhausted in a level whose first prop has the flag and
\* stands within reach of its neighbours, which were merged without it.
C14_Witness ==
    /\ gpc = "done"
    /\ level.lit = {1}
    /\ level.counts = <<1, 1, 1, 0>>
    /\ level.dist = 150
    /\ \E i \in 1..Len(emitted) : SeqToSet(emitted[i]) = {2, 3}

\* C15 as stated: a combine_group call that has to compile a fingerprint
\* whose models have more than one surface-property value as written, or
\* more than one contents value, raises, writes and compiles nothing and
\* returns no merged prop.
C15_MixedRaisesAsWritten ==
    [][ ( /\ looked' # looked
          /\ ~CacheHas(mdl_cache, Fingerprint(arg'))
          /\ CompileRejectsAsWritten(Fingerprint(arg')) )
        => ( /\ pc' = "raised"
             /\ files' = files
             /\ compiled' = compiled
             /\ ret' = NoCall ) ]_vars

\* C15: a combine_group call that has to compile a fingerprint whose models
\* have more than one surface-property value once case is folded, or more
\* than one contents value, raises, writes and compiles nothing and returns
\* no merged prop.
C15_MixedRaises ==
    [][ ( /\ looked' # looked
          /\ ~CacheHas(mdl_cache, Fingerprint(arg'))
          /\ \E p, q \in Fingerprint(arg') :
                \/ Casefold(lookup_model(p.model).surfaceprop)
                      # Casefold(lookup_model(q.model).surfaceprop)
                \/ lookup_model(p.model).contents # lookup_model(q.model).contents )
        => ( /\ pc' = "raised"
             /\ files' = files
             /\ packed' = packed
             /\ compiled' = compiled
             /\ ret' = NoCall ) ]_vars

\* compile() has raised for a group of two materials, in a run that had
\* compiled another group before.
C15_Witness ==
    /\ pc = "raised"
    /\ arg # NoCall
    /\ \E p, q \in Fingerprint(arg) :
          lookup_model(p.model).surfaceprop = "metal"
          /\ lookup_model(q.model).surfaceprop = "wood"
    /\ BagCardinality(compiled) > 0

C17_MergedProp ==
    arg # NoCall =>
        LET n == Len(arg)
            sum == SumOrigin(arg)
            merged == CacheGet(mdl_cache, Fingerprint(arg))
        IN /\ \A a \in 1..3 : 2 * Abs(n * ret.origin[a] - Scale * sum[a]) <= n
           /\ ret.angles = <<0, 270, 0>>
           /\ ret.model = merged.name
           /\ ~merged.has_coll => ret.solidity = 0
           /\ Len(ret.visleafs) = Cardinality(VisleafUnion(arg))
           /\ \A i \in 1..Len(ret.visleafs) :
                 /\ ret.visleafs[i] \in VisleafUnion(arg)
                 /\ \A j \in 1..(i - 1) : ret.visleafs[j] < ret.visleafs[i]

\* The last call was a cache hit for a solid group of three whose record,
\* built for the same group made non-solid, has no collision mesh.
C17_Witness ==
    /\ arg # NoCall
    /\ Len(arg) = 3
    /\ arg[1].solidity # 0
    /\ ret.solidity = 0
    /\ CopiesIn(Fingerprint(arg), looked) >= 2
    /\ CopiesIn(Fingerprint(arg), compiled) = 1

\* C18: in region-directed grouping no prop is a member of two emitted
\* clusters, and no prop is both a member of an emitted cluster and in the
\* rejected list, also when the boxes of two matching regions overlap at
\* the origin of the prop.
C18_AtMostOneRegion ==
    level.ents # <<>> =>
        \A id \in 1..NumProps(level) :
            LET clusters == {i \in 1..Len(emitted) : id \in SeqToSet(emitted[i])}
            IN /\ Cardinality(clusters) <= 1
               /\ clusters # {} => TimesRejected(id) = 0

\* C19 as stated: in a pass of automatic grouping that ends without a
\* cluster, a prop that is rejected stays in the pool unless it is the seed
\* the pass popped; so a rejected prop that left the pool is the only prop
\* that left it.
C19_RejectedStayInPool ==
    [][ (gpc = "seed" /\ emitted' = emitted) =>
            \A c \in todo \ todo' :
                (\E i \in (Len(final_props) + 1)..Len(final_props') :
                    final_props'[i] = Rejected(c))
                => todo \ todo' = {c} ]_vars

\* C19: in a pass of automatic grouping that ends without a cluster, every
\* prop that is rejected was in the pool and has left it; and at all times
\* a rejected prop is outside the pool, in no emitted cluster and in the
\* rejected list once.
C19_RejectedLeavePool ==
    /\ [][ (gpc = "seed" /\ emitted' = emitted) =>
              \A i \in (Len(final_props) + 1)..Len(final_props') :
                 \E c \in todo \ todo' : final_props'[i] = Rejected(c) ]_vars
    /\ [](level.ents = <<>> =>
            \A id \in 1..NumProps(level) :
                TimesRejected(id) > 0 =>
                    /\ TimesRejected(id) = 1
                    /\ id \notin todo
                    /\ \A i \in 1..Len(emitted) : id \notin SeqToSet(emitted[i]))

\* A pass over the four sites with a radius of 100 has gathered all four
\* props and kept only the one at the second site, which is fewer than
\* min_cluster: that prop is rejected and out of the pool, in which the
\* third and fourth still wait for a seed.
C19_Witness ==
    /\ level.counts = <<1, 1, 1, 1>>
    /\ level.second = <<0, 0, 0, 0>>
    /\ level.lit = {}
    /\ level.dist = 100
    /\ level.min_cluster = 3
    /\ gpc = "seed"
    /\ final_props = <<Rejected(2)>>
    /\ todo = {3, 4}

\* C20: under both groupers all members of every emitted cluster have one
\* grouping key, at every point of the run.
C20_NoMergeAcrossBuckets ==
    \A i \in 1..Len(emitted) :
        \A p, q \in SeqToSet(emitted[i]) :
            /\ KeyOf(level, p) # NoKey
            /\ KeyOf(level, p) = KeyOf(level, q)

\* The grouper is exhausted after two props that stand on one spot but
\* have different keys were emitted, each in a cluster of its own bucket.
C20_Witness ==
    /\ gpc = "done"
    /\ \E i, j \in 1..Len(emitted) :
       \E p \in SeqToSet(emitted[i]) : \E q \in SeqToSet(emitted[j]) :
          /\ i # j
          /\ OriginOf(level, p) = OriginOf(level, q)
          /\ KeyOf(level, p) # KeyOf(level, q)

\* C21: every pass of the while loop of group_props_auto leaves the pool a
\* strict subset of what it was, the loop leaves a bucket only with the pool
\* empty, and the grouper is exhausted in the end.
C21_AutoTerminates ==
    /\ [][ gpc = "seed" =>
              /\ todo' \subseteq todo
              /\ todo' # todo
              /\ gpc' # "seed" => todo' = {} ]_vars
    /\ <>(gpc = "done" /\ todo = {})

\* The grouper is exhausted after the loop made three passes over a bucket
\* of four props: two that rejected a prop and one that emitted a pair.
C21_Witness ==
    /\ gpc = "done"
    /\ todo = {}
    /\ Len(prop_groups) = 1
    /\ Len(prop_groups[1]) = 4
    /\ Len(emitted) = 1
    /\ Len(final_props) = 3

\* How many emitted clusters hold a prop, counting a cluster once for each
\* place the prop has in it.
TimesEmitted(id) ==
    Cardinality({<<i, j>> \in (1..Len(emitted)) \X (1..MAX_GROUP + 2) :
                    j <= Len(emitted[i]) /\ emitted[i][j] = id})

\* C22: when group_props_auto is exhausted, every prop of the level is a
\* member of exactly one emitted cluster or is in the rejected list exactly
\* once, and never both.
C22_InstanceConservation ==
    (level.ents = <<>> /\ level.dist > 0 /\ gpc = "done") =>
        \A id \in 1..NumProps(level) :
            TimesEmitted(id) + TimesRejected(id) = 1

\* C23: the prop the last combine_group call returned has the solidity that
\* the members of the group share, whichever record its fingerprint hit.
C23_SolidityPreserved ==
    (arg # NoCall /\ \A i \in 1..Len(arg) : arg[i].solidity = arg[1].solidity) =>
        ret.solidity = arg[1].solidity

\* C24: at every point after load() no two records of the cache have the
\* same name, and the name of every record is in _mdl_names.
C24_UniqueNames ==
    pc # "load" =>
        /\ \A i, j \in 1..Len(mdl_cache) :
              i # j => mdl_cache[i].name # mdl_cache[j].name
        /\ \A i \in 1..Len(mdl_cache) : mdl_cache[i].name \in mdl_names

\* In a second compile the cache holds a record that load() read from the
\* file and a record that combine_group built after it.
C24_Witness ==
    /\ run > 1
    /\ pc = "combine"
    /\ Len(mdl_cache) >= 2
    /\ \E i, j \in 1..Len(mdl_cache) :
          /\ mdl_cache[i].key \in loaded
          /\ mdl_cache[j].key \notin loaded
          /\ BagIn(mdl_cache[j].key, compiled)

\* C25: finalise() leaves in the model folder every file that bears the
\* name of a used record and one of the generated extensions, and the cache
\* file exists when it is done.
C25_UsedArtifactsKept ==
    [][ (pc = "combine" /\ pc' = "finalised") =>
           /\ \A f \in files :
                 (f.name \in UsedNames /\ f.ext \in SeqToSet(MDL_EXTS)) => f \in files'
           /\ cache_file'.exists ]_vars

\* finalise() of a second compile has unlinked the .mdl of a record that
\* was loaded and not used, and every file studiomdl wrote for a used record
\* with a collision mesh is in the folder next to the cache file.
C25_Witness ==
    /\ pc = "finalised"
    /\ run > 1
    /\ cache_file.exists
    /\ \E n \in UsedNames :
          \A i \in 1..Len(MDL_EXTS) : ModelFile(n, MDL_EXTS[i]) \in files
    /\ \E m \in mdl_names \ UsedNames :
          /\ ModelFile(m, ".mdl") \notin files
          /\ ModelFile(m, ".dx90.vtx") \in files

====
